---- MODULE Spec2Model ----
(***************************************************************************)
(* Failover decision engine and metrics collection loop of                 *)
(* NETWORK-FAILOVER-AUTOMATION (src/src/monitoring/collector.py,           *)
(* src/src/router/interfaces.py, src/src/router/mikrotik.py,               *)
(* src/src/monitoring/presistence.py, src/config/router_config.py).        *)
(*                                                                         *)
(* Conventions.                                                            *)
(*  - A Python dict is a TLA+ function whose DOMAIN is the set of keys.    *)
(*  - An optional value (None or v) is the sequence <<>> or <<v>>.         *)
(*  - Latencies are milliseconds, packet loss is percent, time is seconds. *)
(*    float('inf') is the value INF, larger than every finite latency of   *)
(*    the model; FAdd and FDiv keep it absorbing as float arithmetic does. *)
(*    The finite ping latencies the router answers with are even, so that  *)
(*    the mean over one or two targets is exact.                           *)
(*  - A Python value whose type matters ('true' the str, True the bool)    *)
(*    is written as its Python literal inside a string.                    *)
(***************************************************************************)
EXTENDS Integers, Sequences, FiniteSets, TLC

VARIABLES
    current_active,        \* InterfaceManager.current_active
    failover_timestamp,    \* InterfaceManager.failover_timestamp, <<>> is None
    consecutive_failures,  \* NetworkMonitor.consecutive_failures (dict)
    metrics_history,       \* NetworkMonitor.metrics_history (dict of lists)
    is_running,            \* NetworkMonitor.is_running
    interval,              \* argument of _monitoring_loop, <<>> before start
    pc,                    \* position of the monitoring loop thread
    metrics,               \* local `metrics` of _monitoring_loop, <<>> if unset
    now,                   \* the wall clock read by time.time()
    route_distance,        \* router: distance of each interface's default route
    router_calls,          \* router: update_routing_priority calls of the latest round
    round_log,             \* what the latest process_metrics call did
    collected,             \* every metrics dict collect_metrics has returned
    arg,                   \* argument of the latest direct call of a pure function
    ret,                   \* its return value
    monitor_thread,        \* NetworkMonitor.monitor_thread, <<>> is None
    threads,               \* the threading.Thread objects start_monitoring made
    api_calls,             \* start_monitoring / stop_monitoring calls made so far
    caller,                \* position of the thread calling the monitor's API
    persistence,           \* NetworkMonitor.persistence, <<>> is None
    stored,                \* sink: rows of table interface_metrics
    failover_events        \* sink: rows of table failover_events

engine_vars  == <<current_active, failover_timestamp, consecutive_failures>>
monitor_vars == <<metrics_history, is_running, interval, pc, metrics>>
router_vars  == <<route_distance, router_calls>>
obs_vars     == <<round_log, collected>>
call_vars    == <<arg, ret>>
monitor_vars_but_pc == <<metrics_history, is_running, interval, metrics>>
thread_vars  == <<monitor_thread, threads, api_calls, caller>>
sink_vars    == <<persistence, stored, failover_events>>
vars == <<engine_vars, monitor_vars, router_vars, obs_vars, call_vars, now,
          thread_vars, sink_vars>>

----------------------------------------------------------------------------
(* Configuration: src/config/router_config.py                              *)

primary_interface   == "ether1"
secondary_interface == "ether2"
INTERFACES == <<primary_interface, secondary_interface>>
Interfaces == {primary_interface, secondary_interface}

PING_TARGETS == <<"8.8.8.8", "1.1.1.1">>

latency_max          == 100
packet_loss_max      == 5
check_interval       == 30
failover_timeout     == 60
consecutive_failures_threshold == 3

HistoryCap   == 1000     \* collect_metrics keeps the last 1000 entries
PingCount    == 5        \* count=5 in get_interface_metrics
DistanceDemoted  == 10   \* new_distance of the interface failed over from
DistancePromoted == 1    \* new_distance of the interface failed over to
INF == 1000000           \* float('inf')

----------------------------------------------------------------------------
(* Bounds of the model                                                     *)

MaxRounds   == 6     \* monitoring rounds explored by Spec
MaxCollect  == 1002  \* collect_metrics calls explored by SpecHist
HealthSpan  == 2     \* latencies and losses explored around each threshold
Epoch       == 1000  \* the clock's reading at construction
MaxCalls    == 3     \* start_monitoring / stop_monitoring calls explored
MaxStopCalls == 2    \* the same, in the runs with fair scheduling
MaxSinkRounds == 3   \* monitoring rounds explored by SpecSink
MaxReadCollects == 3 \* collect_metrics calls explored by SpecRead
MaxLimit    == 3     \* limits explored by SpecRead
EvalSpan    == 1     \* seconds explored around failover_timeout by SpecEval
MaxThreadRounds == 3 \* loop iterations explored by SpecThreads

----------------------------------------------------------------------------
(* Helpers                                                                 *)

None == <<>>
Some(v) == <<v>>

\* dict.get(key): None when the key is missing
Get(d, k) == IF k \in DOMAIN d THEN Some(d[k]) ELSE None

EmptyDict == [x \in {} |-> 0]

FAdd(a, b) == IF a = INF \/ b = INF THEN INF ELSE a + b
FDiv(a, n) == IF a = INF THEN INF ELSE a \div n

RECURSIVE FSum(_)
FSum(s) == IF s = <<>> THEN 0 ELSE FAdd(Head(s), FSum(Tail(s)))

\* s[-n:] for n >= 1
LastN(s, n) == IF Len(s) <= n THEN s ELSE SubSeq(s, Len(s) - n + 1, Len(s))

OtherInterface(i) == IF i = primary_interface THEN secondary_interface
                     ELSE primary_interface

----------------------------------------------------------------------------
(* InterfaceManager.is_interface_healthy                                   *)

is_interface_healthy_lenient(mopt) ==
    IF mopt = None THEN FALSE
    ELSE LET m == mopt[1] IN
         IF m.status = "down" THEN FALSE
         ELSE m.latency <= latency_max /\ m.packet_loss <= packet_loss_max

is_interface_healthy(mopt) ==
    IF mopt = None THEN FALSE
    ELSE LET m == mopt[1] IN
         IF m.status = "down" THEN FALSE
         ELSE LET latency_ok     == m.latency < latency_max
                  packet_loss_ok == m.packet_loss < packet_loss_max
              IN  latency_ok /\ packet_loss_ok

----------------------------------------------------------------------------
(* InterfaceManager.get_interface_metrics and check_interfaces.            *)
(* The router's answers are the inputs: status is None or a record with a  *)
(* `running` value; pings is one optional result per ping target.          *)

RECURSIVE PresentResults(_)
PresentResults(pings) ==
    IF pings = <<>> THEN <<>>
    ELSE IF Head(pings) = None THEN PresentResults(Tail(pings))
         ELSE <<Head(pings)[1]>> \o PresentResults(Tail(pings))

SeqMap(s, field) == [k \in 1..Len(s) |-> s[k][field]]

(* MikrotikClient.check_interface_connectivity: results is the router's    *)
(* list of replies to one ping test, each with a time or without one       *)
(* (<<>>); the quotients are exact for the values explored                 *)

check_interface_connectivity(results, count) ==
    LET sent        == count
        times       == PresentResults(results)
        received    == Len(times)
        packet_loss == IF sent > 0 THEN ((sent - received) * 100) \div sent
                       ELSE 0
        avg_time    == IF times # <<>> THEN FSum(times) \div Len(times)
                       ELSE INF
    IN  [avg_latency |-> avg_time, packet_loss |-> packet_loss]

\* `not interface_status or interface_status.get('running') != 'true'`
InterfaceDown(status) == status = None \/ status[1].running # "'true'"

\* the ping tests get_interface_metrics asks the router for
PingTests(interface_name, status) ==
    IF InterfaceDown(status) THEN <<>>
    ELSE [k \in 1..Len(PING_TARGETS) |->
             [interface |-> interface_name, target |-> PING_TARGETS[k],
              count |-> PingCount]]

get_interface_metrics(interface_name, status, pings, t) ==
    IF InterfaceDown(status)
    THEN [interface |-> interface_name, status |-> "down",
          latency |-> INF, packet_loss |-> 100, timestamp |-> t]
    ELSE LET results       == PresentResults(pings)
             latencies     == SeqMap(results, "avg_latency")
             packet_losses == SeqMap(results, "packet_loss")
             avg_latency   == IF latencies # <<>>
                              THEN FDiv(FSum(latencies), Len(latencies))
                              ELSE INF
             avg_packet_loss == IF packet_losses # <<>>
                              THEN FSum(packet_losses) \div Len(packet_losses)
                              ELSE 100
         IN  [interface |-> interface_name, status |-> "up",
              latency |-> avg_latency, packet_loss |-> avg_packet_loss,
              timestamp |-> t]

\* answers: interface -> [status, pings]
check_interfaces(answers, t) ==
    [i \in Interfaces |->
        get_interface_metrics(i, answers[i].status, answers[i].pings, t)]

----------------------------------------------------------------------------
(* MikrotikClient.update_routing_priority: ok is the router's outcome      *)
(* (False when not connected, when no route is found, or on an API error). *)
(* The model has one default route per interface.                          *)

update_routing_priority_unapplied(dist, interface_name, new_distance, ok) ==
    dist

update_routing_priority(dist, interface_name, new_distance, ok) ==
    IF ok THEN [dist EXCEPT ![interface_name] = new_distance] ELSE dist

RouterCall(interface_name, new_distance, ok) ==
    [interface |-> interface_name, distance |-> new_distance, result |-> ok]

----------------------------------------------------------------------------
(* InterfaceManager.evaluate_failover_need: returns <<need, target>>.      *)
(* m is the round's metrics dict, cur/ts the manager's fields, t the clock.*)

Truthy(ts) == ts # None /\ ts[1] # 0

evaluate_failover_need_any_target(m, cur, ts, t) ==
    LET current_healthy == is_interface_healthy(Get(m, cur))
    IN  IF current_healthy THEN <<FALSE, cur>>
        ELSE <<TRUE, OtherInterface(cur)>>

evaluate_failover_need_at_timeout(m, cur, ts, t) ==
    LET other == OtherInterface(cur)
    IN  IF is_interface_healthy(Get(m, cur))
        THEN IF /\ cur = secondary_interface
                /\ is_interface_healthy(Get(m, primary_interface))
                /\ Truthy(ts)
                /\ t - ts[1] >= failover_timeout
             THEN <<TRUE, primary_interface>>
             ELSE <<FALSE, cur>>
        ELSE IF is_interface_healthy(Get(m, other)) THEN <<TRUE, other>>
             ELSE <<FALSE, cur>>

evaluate_failover_need_no_target(m, cur, ts, t) ==
    LET current_healthy == is_interface_healthy(Get(m, cur))
        other_healthy   == is_interface_healthy(Get(m, OtherInterface(cur)))
    IN  IF current_healthy THEN <<FALSE, cur>>
        ELSE IF other_healthy THEN <<TRUE, OtherInterface(cur)>>
             ELSE <<TRUE, "None">>

evaluate_failover_need(m, cur, ts, t) ==
    LET primary_healthy   == is_interface_healthy(Get(m, primary_interface))
        secondary_healthy == is_interface_healthy(Get(m, secondary_interface))
        current_interface == cur
        current_healthy   == is_interface_healthy(Get(m, current_interface))
    IN  IF current_healthy
        THEN IF /\ current_interface = secondary_interface
                /\ primary_healthy
                /\ Truthy(ts)
                /\ t - ts[1] > failover_timeout
             THEN <<TRUE, primary_interface>>
             ELSE <<FALSE, current_interface>>
        ELSE IF current_interface = primary_interface /\ secondary_healthy
             THEN <<TRUE, secondary_interface>>
             ELSE IF current_interface = secondary_interface /\ primary_healthy
                  THEN <<TRUE, primary_interface>>
                  ELSE <<FALSE, current_interface>>

----------------------------------------------------------------------------
(* InterfaceManager.perform_failover: the manager's and the router's state *)
(* after the call, given the outcomes of the two priority updates.         *)

perform_failover_trusting(st, from_interface, to_interface, ok_from, ok_to, t) ==
    LET d1 == update_routing_priority(st.route_distance, from_interface,
                                      DistanceDemoted, ok_from)
        d2 == update_routing_priority(d1, to_interface, DistancePromoted, ok_to)
    IN  [current_active     |-> to_interface,
         failover_timestamp |-> Some(t),
         route_distance     |-> d2,
         router_calls       |-> st.router_calls \o
                  << RouterCall(from_interface, DistanceDemoted, ok_from),
                     RouterCall(to_interface, DistancePromoted, ok_to) >>,
         success            |-> TRUE]

perform_failover(st, from_interface, to_interface, ok_from, ok_to, t) ==
    LET d1 == update_routing_priority(st.route_distance, from_interface,
                                      DistanceDemoted, ok_from)
        d2 == update_routing_priority(d1, to_interface, DistancePromoted, ok_to)
        success == ok_to
    IN  [current_active     |-> IF success THEN to_interface
                                ELSE st.current_active,
         failover_timestamp |-> IF success THEN Some(t)
                                ELSE st.failover_timestamp,
         route_distance     |-> d2,
         router_calls       |-> st.router_calls \o
                  << RouterCall(from_interface, DistanceDemoted, ok_from),
                     RouterCall(to_interface, DistancePromoted, ok_to) >>,
         success            |-> success]

----------------------------------------------------------------------------
(* NetworkMonitor.collect_metrics: history retention                       *)

AppendHistory_keep_all(history, entry) == Append(history, entry)

AppendHistory(history, entry) ==
    LET appended == Append(history, entry)
    IN  IF Len(appended) > HistoryCap THEN LastN(appended, HistoryCap)
        ELSE appended

(* MetricsPersistence.store_metrics: ok is the database's outcome.  The     *)
(* body of its try block ends where the source file ends; its handler is   *)
(* taken from the specification: a failure is logged and not propagated.   *)

store_metrics(rows, interface_metrics, ok) ==
    IF ok THEN Append(rows, interface_metrics) ELSE rows

(* collect_metrics, the loop over metrics.items(): each interface's        *)
(* metrics are appended to its history, then handed to the sink when one   *)
(* is configured; the sink's return value is not looked at.                *)

ContinueAfterStore_abort(ok) == ok

ContinueAfterStore(ok) == TRUE

RECURSIVE CollectEach(_, _, _, _, _)
CollectEach(order, acc, m, persist, sink_ok) ==
    IF order = <<>> THEN acc
    ELSE LET i  == Head(order)
             h  == IF i \in DOMAIN acc.history THEN acc.history[i] ELSE <<>>
             h1 == [x \in (DOMAIN acc.history) \cup {i} |->
                       IF x = i THEN AppendHistory(h, m[i])
                       ELSE acc.history[x]]
             s1 == IF persist # None
                   THEN store_metrics(acc.stored, m[i], sink_ok[i])
                   ELSE acc.stored
             a1 == [history |-> h1, stored |-> s1]
         IN  IF persist # None /\ ~ContinueAfterStore(sink_ok[i])
             THEN a1
             ELSE CollectEach(Tail(order), a1, m, persist, sink_ok)

----------------------------------------------------------------------------
(* NetworkMonitor.process_metrics: counters, gate, reset                   *)

UpdateCounters_no_reset(cf, m) ==
    [i \in (DOMAIN cf) \cup (DOMAIN m) |->
        IF i \in DOMAIN m
        THEN LET c == IF i \in DOMAIN cf THEN cf[i] ELSE 0
             IN  IF ~is_interface_healthy(Some(m[i])) THEN c + 1 ELSE c
        ELSE cf[i]]

UpdateCounters(cf, m) ==
    [i \in (DOMAIN cf) \cup (DOMAIN m) |->
        IF i \in DOMAIN m
        THEN LET c == IF i \in DOMAIN cf THEN cf[i] ELSE 0
                 is_healthy == is_interface_healthy(Some(m[i]))
             IN  IF ~is_healthy THEN c + 1
                 ELSE IF c > 0 THEN 0 ELSE c
        ELSE cf[i]]

GateOpen_late(cf, cur) ==
    cur \in DOMAIN cf /\ cf[cur] > consecutive_failures_threshold

GateOpen_early(cf, cur) ==
    cur \in DOMAIN cf /\ cf[cur] >= consecutive_failures_threshold - 1

GateOpen(cf, cur) ==
    cur \in DOMAIN cf /\ cf[cur] >= consecutive_failures_threshold

ResetAfterFailover_skip(cf, cur) == cf

ResetAfterFailover(cf, cur) == [cf EXCEPT ![cur] = 0]

NoRound == [evaluated |-> FALSE, need_failover |-> FALSE,
            target |-> None, attempted |-> FALSE, success |-> FALSE]

\* The state after process_metrics(m) run at time t from state st, where
\* ok_from and ok_to are the router's outcomes should a failover be performed.
process_metrics(st, m, ok_from, ok_to, t) ==
    LET cf1   == UpdateCounters(st.consecutive_failures, m)
        cur   == st.current_active
        gate  == GateOpen(cf1, cur)
        ev    == evaluate_failover_need(m, cur, st.failover_timestamp, t)
        need_failover    == ev[1]
        target_interface == ev[2]
        attempt == gate /\ need_failover /\ target_interface # cur
        start == [st EXCEPT !.router_calls = <<>>]
        pf    == perform_failover(start, cur, target_interface, ok_from, ok_to, t)
    IN  IF attempt
        THEN [current_active       |-> pf.current_active,
              failover_timestamp   |-> pf.failover_timestamp,
              consecutive_failures |-> ResetAfterFailover(cf1, cur),
              route_distance       |-> pf.route_distance,
              router_calls         |-> pf.router_calls,
              round_log |-> [evaluated |-> TRUE, need_failover |-> TRUE,
                             target |-> Some(target_interface),
                             attempted |-> TRUE, success |-> pf.success]]
        ELSE [current_active       |-> st.current_active,
              failover_timestamp   |-> st.failover_timestamp,
              consecutive_failures |-> cf1,
              route_distance       |-> st.route_distance,
              router_calls         |-> <<>>,
              round_log |-> [evaluated |-> gate,
                             need_failover |-> gate /\ need_failover,
                             target |-> IF gate THEN Some(target_interface)
                                        ELSE None,
                             attempted |-> FALSE, success |-> FALSE]]

EngineState ==
    [current_active       |-> current_active,
     failover_timestamp   |-> failover_timestamp,
     consecutive_failures |-> consecutive_failures,
     route_distance       |-> route_distance,
     router_calls         |-> router_calls]

----------------------------------------------------------------------------
(* Inputs: what the router answers in one round, per interface             *)

PingGood == Some([avg_latency |-> 20,  packet_loss |-> 0])
PingSlow == Some([avg_latency |-> 180, packet_loss |-> 0])

Running(v) == Some([running |-> v])

\* What the router may answer for an interface in a monitoring round.
\* Primary: absent, or not running (both give status down), or up and healthy.
\* Secondary: up and healthy, or up with a mean latency of exactly
\* latency_max (unhealthy).
RouterAnswers(i) ==
    IF i = primary_interface
    THEN { [status |-> None,              pings |-> <<None, None>>],
           [status |-> Running("False"),  pings |-> <<None, None>>],
           [status |-> Running("'true'"), pings |-> <<PingGood, PingGood>>] }
    ELSE { [status |-> Running("'true'"), pings |-> <<PingGood, PingGood>>],
           [status |-> Running("'true'"), pings |-> <<PingGood, PingSlow>>] }

RoundAnswers == { a \in [Interfaces -> UNION {RouterAnswers(i) : i \in Interfaces}] :
                    \A i \in Interfaces : a[i] \in RouterAnswers(i) }

\* the router's answers of a round during an outage of the primary link:
\* the primary interface is absent, the secondary is up and healthy
OutageAnswers ==
    { a \in RoundAnswers :
        /\ a[primary_interface].status = None
        /\ a[secondary_interface].pings = <<PingGood, PingGood>> }

Intervals == {20, check_interval}

----------------------------------------------------------------------------
(* Initial state: NetworkMonitor.__init__ and InterfaceManager.__init__,   *)
(* the router preferring the primary route                                 *)

\* everything but arg and persistence, which the specifications choose
InitState ==
    /\ current_active = primary_interface
    /\ failover_timestamp = None
    /\ consecutive_failures = EmptyDict
    /\ metrics_history = EmptyDict
    /\ is_running = FALSE
    /\ interval = None
    /\ pc = "idle"
    /\ metrics = None
    /\ now = Epoch
    /\ route_distance = [i \in Interfaces |->
                            IF i = primary_interface THEN DistancePromoted
                            ELSE DistanceDemoted]
    /\ router_calls = <<>>
    /\ round_log = NoRound
    /\ collected = <<>>
    /\ ret = None
    /\ monitor_thread = None
    /\ threads = <<>>
    /\ api_calls = <<>>
    /\ caller = "idle"
    /\ stored = <<>>
    /\ failover_events = <<>>

\* NetworkMonitor(interface_manager): persistence defaults to None
Init ==
    /\ InitState
    /\ arg = None
    /\ persistence = None

----------------------------------------------------------------------------
(* NetworkMonitor.start_monitoring                                         *)

start_monitoring(iv) ==
    /\ ~is_running
    /\ is_running' = TRUE
    /\ interval' = Some(iv)
    /\ pc' = "collect"
    /\ monitor_thread' = Some(1)
    /\ UNCHANGED <<engine_vars, metrics_history, metrics, router_vars,
                   obs_vars, call_vars, now, threads, api_calls, caller,
                   sink_vars>>

StartMonitoring == \E iv \in Intervals : start_monitoring(iv)

(* NetworkMonitor.collect_metrics, called with the router's answers; the   *)
(* value it returns is the last entry of collected                         *)

collect_metrics(answers, sink_ok) ==
    LET m == check_interfaces(answers, now)
        r == CollectEach(INTERFACES,
                         [history |-> metrics_history, stored |-> stored],
                         m, persistence, sink_ok)
    IN  /\ metrics_history' = r.history
        /\ stored' = r.stored
        /\ collected' = Append(collected, m)

Returned(log) == Some(log[Len(log)])

\* the outcomes of the sink's writes in one round: none without a sink
SinkOutcomes == IF persistence = None THEN {[i \in Interfaces |-> TRUE]}
                ELSE [Interfaces -> BOOLEAN]

(* _monitoring_loop: `while self.is_running` and collect_metrics           *)

LoopCollectUpTo(rounds, inputs) ==
    /\ pc = "collect"
    /\ is_running
    /\ Len(collected) < rounds
    /\ \E answers \in inputs, sink_ok \in SinkOutcomes :
          collect_metrics(answers, sink_ok)
    /\ metrics' = Returned(collected')
    /\ pc' = "process"
    /\ UNCHANGED <<engine_vars, is_running, interval, router_vars, round_log,
                   call_vars, now, thread_vars, persistence, failover_events>>

LoopCollect == LoopCollectUpTo(MaxRounds, RoundAnswers)

(* _monitoring_loop: process_metrics(metrics)                              *)

LoopProcess ==
    /\ pc = "process"
    /\ \E ok_from \in BOOLEAN, ok_to \in BOOLEAN :
         LET r == process_metrics(EngineState, metrics[1], ok_from, ok_to, now)
         IN  /\ current_active' = r.current_active
             /\ failover_timestamp' = r.failover_timestamp
             /\ consecutive_failures' = r.consecutive_failures
             /\ route_distance' = r.route_distance
             /\ router_calls' = r.router_calls
             /\ round_log' = r.round_log
    /\ pc' = "sleep"
    /\ UNCHANGED <<monitor_vars_but_pc, collected, call_vars, now,
                   thread_vars, sink_vars>>

(* _monitoring_loop: time.sleep(interval)                                  *)

LoopSleep ==
    /\ pc = "sleep"
    /\ now' = now + interval[1]
    /\ pc' = "collect"
    /\ UNCHANGED <<engine_vars, metrics_history, is_running, interval, metrics,
                   router_vars, obs_vars, call_vars, thread_vars, sink_vars>>

Next == StartMonitoring \/ LoopCollect \/ LoopProcess \/ LoopSleep

Spec == Init /\ [][Next]_vars

----------------------------------------------------------------------------
(* The monitoring loop of a monitor constructed with a persistence sink,   *)
(* during an outage of the primary link; each write of the sink succeeds   *)
(* or fails                                                                *)

InitSink ==
    /\ InitState
    /\ arg = None
    /\ persistence = Some("MetricsPersistence")

LoopCollectSink == LoopCollectUpTo(MaxSinkRounds, OutageAnswers)

NextSink == StartMonitoring \/ LoopCollectSink \/ LoopProcess \/ LoopSleep

SpecSink == InitSink /\ [][NextSink]_vars

----------------------------------------------------------------------------
(* Direct calls of get_interface_metrics: the router's status record of    *)
(* the interface and its replies to the ping test of each target           *)

\* `running` as the string 'true' / 'false' or as a bool
StatusInputs ==
    {None} \cup {Running(v) : v \in {"'true'", "'false'", "True", "False"}}

Reply(time) == Some(time)
NoReply == None

\* a ping test fails with an error (None), or gives PingCount replies
ResultInputs ==
    { None,
      Some(<<NoReply, NoReply, NoReply, NoReply, NoReply>>),
      Some(<<Reply(20), Reply(20), Reply(20), Reply(20), Reply(20)>>),
      Some(<<Reply(180), Reply(180), Reply(180), Reply(180), Reply(180)>>),
      Some(<<Reply(20), NoReply, Reply(20), NoReply, NoReply>>) }

MetricsInputs ==
    { [interface_name |-> i, status |-> st, results |-> <<r1, r2>>] :
        i \in Interfaces, st \in StatusInputs,
        r1 \in ResultInputs, r2 \in ResultInputs }

InitMetrics ==
    /\ InitState
    /\ persistence = None
    /\ arg \in {Some(x) : x \in MetricsInputs}

\* what check_interface_connectivity returns for each target
PingResults(results) ==
    [k \in 1..Len(results) |->
        IF results[k] = None THEN None
        ELSE Some(check_interface_connectivity(results[k][1], PingCount))]

CallMetrics ==
    /\ arg # None
    /\ ret = None
    /\ ret' = Some(get_interface_metrics(arg[1].interface_name, arg[1].status,
                                         PingResults(arg[1].results), now))
    /\ router_calls' = PingTests(arg[1].interface_name, arg[1].status)
    /\ UNCHANGED <<engine_vars, monitor_vars, route_distance, obs_vars, arg,
                   now, thread_vars, sink_vars>>

NextMetrics == CallMetrics

SpecMetrics == InitMetrics /\ [][NextMetrics]_vars

----------------------------------------------------------------------------
(* Direct calls of evaluate_failover_need: the manager has either never    *)
(* failed over (primary is active) or failed over last at Epoch, and the   *)
(* call is made at a time around the end of failover_timeout               *)

\* what one interface's metrics of a round can be: healthy, down, or up
\* with a latency of exactly latency_max
EvalMetrics(i, t) ==
    { get_interface_metrics(i, a.status, a.pings, t) :
         a \in UNION {RouterAnswers(x) : x \in Interfaces} }

EvalTimes ==
    {Epoch} \cup
    { Epoch + d : d \in (failover_timeout - EvalSpan)..(failover_timeout + EvalSpan) }

InitEval ==
    /\ current_active \in Interfaces
    /\ failover_timestamp \in {None, Some(Epoch)}
    /\ (current_active = secondary_interface => failover_timestamp # None)
    /\ now \in EvalTimes
    /\ arg \in { Some([metrics |-> m, current_active |-> current_active,
                       failover_timestamp |-> failover_timestamp]) :
                    m \in { x \in [Interfaces ->
                                    UNION {EvalMetrics(i, now) : i \in Interfaces}] :
                              \A i \in Interfaces : x[i] \in EvalMetrics(i, now) } }
    /\ ret = None
    /\ consecutive_failures = EmptyDict
    /\ metrics_history = EmptyDict
    /\ is_running = FALSE
    /\ interval = None
    /\ pc = "idle"
    /\ metrics = None
    /\ route_distance = [i \in Interfaces |->
                            IF i = current_active THEN DistancePromoted
                            ELSE DistanceDemoted]
    /\ router_calls = <<>>
    /\ round_log = NoRound
    /\ collected = <<>>
    /\ monitor_thread = None
    /\ threads = <<>>
    /\ api_calls = <<>>
    /\ caller = "idle"
    /\ persistence = None
    /\ stored = <<>>
    /\ failover_events = <<>>

CallEvaluate ==
    /\ arg # None
    /\ ret = None
    /\ ret' = Some(evaluate_failover_need(arg[1].metrics, current_active,
                                          failover_timestamp, now))
    /\ UNCHANGED <<engine_vars, monitor_vars, router_vars, obs_vars, arg, now,
                   thread_vars, sink_vars>>

NextEval == CallEvaluate

SpecEval == InitEval /\ [][NextEval]_vars

----------------------------------------------------------------------------
(* Direct calls of is_interface_healthy on bounded metrics                 *)

LatencyValues == {0, 20, INF} \cup
                 ((latency_max - HealthSpan)..(latency_max + HealthSpan))
LossValues    == {0, 100} \cup
                 ((packet_loss_max - HealthSpan)..(packet_loss_max + HealthSpan))

HealthInputs ==
    {None} \cup
    { Some([interface |-> primary_interface, status |-> st, latency |-> l,
            packet_loss |-> pl, timestamp |-> Epoch]) :
        st \in {"up", "down"}, l \in LatencyValues, pl \in LossValues }

InitHealth ==
    /\ InitState
    /\ persistence = None
    /\ arg \in {Some(x) : x \in HealthInputs}

CallHealthy ==
    /\ arg # None
    /\ ret = None
    /\ ret' = Some(is_interface_healthy(arg[1]))
    /\ UNCHANGED <<engine_vars, monitor_vars, router_vars, obs_vars, arg, now,
                   thread_vars, sink_vars>>

NextHealth == CallHealthy

SpecHealth == InitHealth /\ [][NextHealth]_vars

----------------------------------------------------------------------------
(* Direct calls of collect_metrics, one second apart, the router reporting *)
(* both interfaces up: the entries differ by their timestamps              *)

HistAnswers ==
    [i \in Interfaces |->
        [status |-> Running("'true'"), pings |-> <<PingGood, PingGood>>]]

HistCollectUpTo(calls) ==
    /\ Len(collected) < calls
    /\ \E sink_ok \in SinkOutcomes : collect_metrics(HistAnswers, sink_ok)
    /\ metrics' = Returned(collected')
    /\ now' = now + 1
    /\ UNCHANGED <<engine_vars, is_running, interval, pc, router_vars,
                   round_log, call_vars, thread_vars, persistence,
                   failover_events>>

HistCollect == HistCollectUpTo(MaxCollect)

NextHist == HistCollect

SpecHist == Init /\ [][NextHist]_vars

----------------------------------------------------------------------------
(* The monitor's API called from one controlling thread, and every loop    *)
(* thread it started.  A loop thread's position and locals are its entry   *)
(* of threads; collect_metrics and process_metrics are each one step.      *)

JoinTimeout == 5    \* monitor_thread.join(timeout=5.0)

Alive(th) == th.pc # "done"

\* loop iterations begun so far by all threads
RECURSIVE RoundsBegun(_)
RoundsBegun(ths) ==
    IF ths = <<>> THEN 0 ELSE Head(ths).rounds + RoundsBegun(Tail(ths))

Max(a, b) == IF a >= b THEN a ELSE b

\* `if self.is_running: return` of start_monitoring
StartReturnsEarly_never(running) == FALSE

StartReturnsEarly(running) == running

\* `if not self.is_running: return` of stop_monitoring
StopReturnsEarly(running) == ~running

\* threading.Thread(target=self._monitoring_loop, args=(interval,)).start()
NewThread(iv) ==
    [pc |-> "collect", interval |-> iv, metrics |-> None, wake |-> 0,
     rounds |-> 0, raised |-> FALSE]

start_monitoring_call(iv, calls) ==
    /\ caller = "idle"
    /\ Len(api_calls) < calls
    /\ api_calls' = Append(api_calls, "start")
    /\ IF StartReturnsEarly(is_running)
       THEN UNCHANGED <<is_running, threads, monitor_thread>>
       ELSE /\ is_running' = TRUE
            /\ threads' = Append(threads, NewThread(iv))
            /\ monitor_thread' = Some(Len(threads) + 1)
    /\ UNCHANGED <<engine_vars, metrics_history, interval, pc, metrics,
                   router_vars, obs_vars, call_vars, now, caller, sink_vars>>

\* interval=None: THRESHOLDS['check_interval']
ApiStart(calls) == start_monitoring_call(check_interval, calls)

\* stop_monitoring up to the join of the loop thread
ApiStop(calls) ==
    /\ caller = "idle"
    /\ Len(api_calls) < calls
    /\ api_calls' = Append(api_calls, "stop")
    /\ IF StopReturnsEarly(is_running)
       THEN UNCHANGED <<is_running, caller>>
       ELSE /\ is_running' = FALSE
            /\ caller' = IF monitor_thread # None
                            /\ Alive(threads[monitor_thread[1]])
                         THEN "join" ELSE "idle"
    /\ UNCHANGED <<engine_vars, metrics_history, interval, pc, metrics,
                   router_vars, obs_vars, call_vars, now, monitor_thread,
                   threads, sink_vars>>

\* join returns because the loop thread has ended
JoinReturns ==
    /\ caller = "join"
    /\ ~Alive(threads[monitor_thread[1]])
    /\ caller' = "idle"
    /\ UNCHANGED <<engine_vars, monitor_vars, router_vars, obs_vars,
                   call_vars, now, monitor_thread, threads, api_calls,
                   sink_vars>>

\* join returns after its timeout: the loop thread is still in a round's
\* router calls, or in a sleep that lasts longer than the timeout
JoinTimesOut ==
    /\ caller = "join"
    /\ LET th == threads[monitor_thread[1]]
       IN  \/ th.pc = "process"
           \/ th.pc = "sleep" /\ th.wake > now + JoinTimeout
    /\ now' = now + JoinTimeout
    /\ caller' = "idle"
    /\ UNCHANGED <<engine_vars, monitor_vars, router_vars, obs_vars,
                   call_vars, monitor_thread, threads, api_calls, sink_vars>>

\* `while self.is_running`
LoopCondition_always(running) == TRUE

LoopCondition(running) == running

\* `except Exception`: the error is logged, the thread sleeps one interval
ExceptHandler_exit(th, t) ==
    [th EXCEPT !.pc = "done", !.raised = TRUE]

ExceptHandler(th, t) ==
    [th EXCEPT !.pc = "sleep", !.raised = TRUE, !.wake = t + th.interval]

\* the loop test succeeds and collect_metrics returns
ThreadCollect(t) ==
    /\ t \in DOMAIN threads
    /\ threads[t].pc = "collect"
    /\ LoopCondition(is_running)
    /\ RoundsBegun(threads) < MaxThreadRounds
    /\ \E answers \in OutageAnswers, sink_ok \in SinkOutcomes :
          collect_metrics(answers, sink_ok)
    /\ threads' = [threads EXCEPT ![t].pc = "process",
                                  ![t].metrics = Returned(collected'),
                                  ![t].rounds = @ + 1,
                                  ![t].raised = FALSE]
    /\ UNCHANGED <<engine_vars, is_running, interval, pc, metrics, router_vars,
                   round_log, call_vars, now, monitor_thread, api_calls,
                   caller, persistence, failover_events>>

\* the loop test succeeds and collect_metrics raises before it has
\* recorded anything
ThreadCollectRaises(t) ==
    /\ t \in DOMAIN threads
    /\ threads[t].pc = "collect"
    /\ LoopCondition(is_running)
    /\ RoundsBegun(threads) < MaxThreadRounds
    /\ threads' = [threads EXCEPT
                     ![t] = ExceptHandler([@ EXCEPT !.rounds = @ + 1], now)]
    /\ UNCHANGED <<engine_vars, monitor_vars, router_vars, obs_vars,
                   call_vars, now, monitor_thread, api_calls, caller,
                   sink_vars>>

\* the loop test fails: the thread ends
ThreadExit(t) ==
    /\ t \in DOMAIN threads
    /\ threads[t].pc = "collect"
    /\ ~LoopCondition(is_running)
    /\ threads' = [threads EXCEPT ![t].pc = "done"]
    /\ UNCHANGED <<engine_vars, monitor_vars, router_vars, obs_vars,
                   call_vars, now, monitor_thread, api_calls, caller,
                   sink_vars>>

\* process_metrics returns and the thread goes to sleep; the router
\* accepts the updates of a failover
ThreadProcess(t) ==
    /\ t \in DOMAIN threads
    /\ threads[t].pc = "process"
    /\ LET r == process_metrics(EngineState, threads[t].metrics[1],
                                TRUE, TRUE, now)
       IN  /\ current_active' = r.current_active
           /\ failover_timestamp' = r.failover_timestamp
           /\ consecutive_failures' = r.consecutive_failures
           /\ route_distance' = r.route_distance
           /\ router_calls' = r.router_calls
           /\ round_log' = r.round_log
    /\ threads' = [threads EXCEPT ![t].pc = "sleep",
                                  ![t].wake = now + threads[t].interval]
    /\ UNCHANGED <<monitor_vars, collected, call_vars, now, monitor_thread,
                   api_calls, caller, sink_vars>>

\* process_metrics raises once the counters are updated
ThreadProcessRaises(t) ==
    /\ t \in DOMAIN threads
    /\ threads[t].pc = "process"
    /\ consecutive_failures' =
          UpdateCounters(consecutive_failures, threads[t].metrics[1])
    /\ threads' = [threads EXCEPT ![t] = ExceptHandler(@, now)]
    /\ UNCHANGED <<current_active, failover_timestamp, monitor_vars,
                   router_vars, obs_vars, call_vars, now, monitor_thread,
                   api_calls, caller, sink_vars>>

\* time.sleep(interval) returns
ThreadWake(t) ==
    /\ t \in DOMAIN threads
    /\ threads[t].pc = "sleep"
    /\ now' = Max(now, threads[t].wake)
    /\ threads' = [threads EXCEPT ![t].pc = "collect"]
    /\ UNCHANGED <<engine_vars, monitor_vars, router_vars, obs_vars,
                   call_vars, monitor_thread, api_calls, caller, sink_vars>>

ThreadStep(t) ==
    \/ ThreadCollect(t)
    \/ ThreadCollectRaises(t)
    \/ ThreadExit(t)
    \/ ThreadProcess(t)
    \/ ThreadProcessRaises(t)
    \/ ThreadWake(t)

\* the steps of runs with at most `calls` calls of the API
NextThreads(calls) ==
    \/ ApiStart(calls)
    \/ ApiStop(calls)
    \/ JoinReturns
    \/ JoinTimesOut
    \/ \E t \in 1..calls : ThreadStep(t)

SpecThreads == Init /\ [][NextThreads(MaxCalls)]_vars

\* runs in which every loop thread that can take a step eventually takes one
FairSpecStop ==
    /\ Init
    /\ [][NextThreads(MaxStopCalls)]_vars
    /\ \A t \in 1..MaxStopCalls : WF_vars(ThreadStep(t))

----------------------------------------------------------------------------
(* NetworkMonitor.get_metrics_history, called between direct calls of      *)
(* collect_metrics                                                         *)

\* history[-limit:] for limit >= 0: -0 is 0, the slice from the start
SliceLast(history, limit) ==
    IF limit = 0 THEN history ELSE LastN(history, limit)

get_metrics_history(mh, interface, limit) ==
    IF interface # None
    THEN LET history == IF interface[1] \in DOMAIN mh THEN mh[interface[1]]
                        ELSE <<>>
         IN  IF history # <<>> THEN SliceLast(history, limit) ELSE <<>>
    ELSE [iface \in DOMAIN mh |->
             IF mh[iface] # <<>> THEN SliceLast(mh[iface], limit) ELSE <<>>]

\* interface: None for all interfaces, a configured one, or an unknown one
InterfaceInputs == {None} \cup {Some(i) : i \in Interfaces \cup {"ether9"}}

CallHistory ==
    /\ \E interface \in InterfaceInputs, limit \in 0..MaxLimit :
          /\ arg' = Some([interface |-> interface, limit |-> limit])
          /\ ret' = Some(get_metrics_history(metrics_history, interface, limit))
    /\ UNCHANGED <<engine_vars, monitor_vars, router_vars, obs_vars, now,
                   thread_vars, sink_vars>>

ReadCollect == HistCollectUpTo(MaxReadCollects)

NextRead == ReadCollect \/ CallHistory

SpecRead == Init /\ [][NextRead]_vars

----------------------------------------------------------------------------
(* Observations used by the properties                                     *)

Healthy(m, i) == is_interface_healthy(Get(m, i))

\* a step of the loop that runs process_metrics
ProcessStep == pc = "process" /\ pc' = "sleep"

\* the state is the end of a process_metrics round
RoundDone == pc = "sleep"

CallsOf(calls, i, d) ==
    { k \in 1..Len(calls) : calls[k].interface = i /\ calls[k].distance = d }

AllCallsSucceeded(calls) == \A k \in 1..Len(calls) : calls[k].result

TargetUpdateFailed(calls) ==
    \E k \in 1..Len(calls) :
        calls[k].distance = DistancePromoted /\ ~calls[k].result

\* number of most recent consecutive rounds of the log in which i is unhealthy
RECURSIVE TrailingUnhealthy(_, _)
TrailingUnhealthy(log, i) ==
    IF log = <<>> THEN 0
    ELSE IF Healthy(log[Len(log)], i) THEN 0
         ELSE 1 + TrailingUnhealthy(SubSeq(log, 1, Len(log) - 1), i)

Min(a, b) == IF a <= b THEN a ELSE b

----------------------------------------------------------------------------
(* C1: from the initial state, when primary has status down in the first   *)
(* three rounds, secondary is healthy in the third and every priority      *)
(* update of the third round succeeds, the third round ends with secondary *)
(* active and the router having received update_routing_priority           *)
(* (primary, 10) and (secondary, 1).                                       *)

C1_ThreeDownRounds ==
    /\ RoundDone
    /\ Len(collected) = consecutive_failures_threshold
    /\ \A k \in 1..Len(collected) :
          collected[k][primary_interface].status = "down"
    /\ Healthy(collected[Len(collected)], secondary_interface)

C1_FailoverAfterThreeDownRounds ==
    (C1_ThreeDownRounds /\ AllCallsSucceeded(router_calls))
    => /\ current_active = secondary_interface
       /\ CallsOf(router_calls, primary_interface, DistanceDemoted) # {}
       /\ CallsOf(router_calls, secondary_interface, DistancePromoted) # {}

C1_Witness ==
    /\ C1_ThreeDownRounds
    /\ AllCallsSucceeded(router_calls)
    /\ current_active = secondary_interface
    /\ Len(router_calls) = 2

(* C2: a round evaluates or performs a failover only if the active         *)
(* interface's counter, after the round's update, has reached the          *)
(* threshold, which needs the active interface unhealthy in the last N     *)
(* rounds; and the round that makes it exactly N consecutive unhealthy     *)
(* rounds does evaluate.                                                   *)

C2_GateOnNthRound ==
    [][ ProcessStep =>
        LET n   == TrailingUnhealthy(collected, current_active)
            cf1 == UpdateCounters(consecutive_failures, metrics[1])
        IN  /\ (round_log'.evaluated \/ router_calls' # <<>>)
                  => /\ cf1[current_active] >= consecutive_failures_threshold
                     /\ n >= consecutive_failures_threshold
            /\ n = consecutive_failures_threshold => round_log'.evaluated
            /\ n < consecutive_failures_threshold => ~round_log'.evaluated
      ]_vars

C2_Witness ==
    /\ RoundDone
    /\ round_log.evaluated
    /\ Len(collected) = consecutive_failures_threshold
    /\ \A k \in 1..Len(collected) :
          Healthy(collected[k], OtherInterface(current_active))
    /\ TargetUpdateFailed(router_calls)

(* C3: when the target's priority update (distance 1) fails, the attempt   *)
(* leaves current_active and failover_timestamp as they were, whatever the *)
(* outcome of the old interface's update.                                  *)

C3_FailedTargetUpdateKeepsState ==
    [][ (ProcessStep /\ TargetUpdateFailed(router_calls'))
          => UNCHANGED <<current_active, failover_timestamp>> ]_vars

C3_Witness ==
    /\ RoundDone
    /\ TargetUpdateFailed(router_calls)
    /\ \E k \in 1..Len(router_calls) :
          router_calls[k].distance = DistanceDemoted /\ router_calls[k].result

(* C4: after a failed switch attempt the gate still holds: the active      *)
(* interface's counter is at or above the threshold at the end of the      *)
(* round, so the next unhealthy round attempts the switch again.           *)

C4_GatePersistsAfterFailedAttempt ==
    (RoundDone /\ round_log.attempted /\ ~round_log.success)
    => /\ current_active \in DOMAIN consecutive_failures
       /\ consecutive_failures[current_active] >= consecutive_failures_threshold

(* C5: a round that changes current_active from A to B ends with the       *)
(* consecutive-failure counter of A at 0.                                  *)

C5_OldActiveCounterReset ==
    [][ current_active' # current_active
          => consecutive_failures'[current_active] = 0 ]_vars

C5_Witness ==
    /\ RoundDone
    /\ round_log.success
    /\ current_active = secondary_interface
    /\ consecutive_failures[primary_interface] = 0
    /\ ~Healthy(metrics[1], primary_interface)

(* C6: a round in which both interfaces are unhealthy issues no priority   *)
(* update and leaves current_active and failover_timestamp unchanged,      *)
(* however large the active interface's counter.                           *)

C6_BothUnhealthyNoSwitch ==
    [][ ( /\ ProcessStep
          /\ ~Healthy(metrics[1], primary_interface)
          /\ ~Healthy(metrics[1], secondary_interface) )
          => /\ router_calls' = <<>>
             /\ UNCHANGED <<current_active, failover_timestamp>> ]_vars

C6_Witness ==
    /\ RoundDone
    /\ ~Healthy(metrics[1], primary_interface)
    /\ ~Healthy(metrics[1], secondary_interface)
    /\ consecutive_failures[current_active] > consecutive_failures_threshold
    /\ router_calls = <<>>

(* C7 as stated: current_active changes from secondary to primary only in  *)
(* a round where primary is healthy and more than failover_timeout has     *)
(* elapsed since failover_timestamp.                                       *)

C7_SwitchToPrimaryOnlyAfterTimeout ==
    [][ (current_active = secondary_interface
           /\ current_active' = primary_interface)
          => /\ Healthy(metrics[1], primary_interface)
             /\ failover_timestamp # None
             /\ now - failover_timestamp[1] > failover_timeout ]_vars

(* C7 amended: current_active changes from secondary to primary only in a  *)
(* round where primary is healthy and either more than failover_timeout    *)
(* has elapsed since failover_timestamp or secondary is unhealthy in that  *)
(* round.                                                                  *)

C7_SwitchToPrimaryAfterTimeoutOrFailure ==
    [][ (current_active = secondary_interface
           /\ current_active' = primary_interface)
          => /\ Healthy(metrics[1], primary_interface)
             /\ \/ ~Healthy(metrics[1], secondary_interface)
                \/ /\ failover_timestamp # None
                   /\ now - failover_timestamp[1] > failover_timeout ]_vars

C7_Witness ==
    /\ RoundDone
    /\ round_log.success
    /\ current_active = primary_interface
    /\ Healthy(metrics[1], primary_interface)
    /\ ~Healthy(metrics[1], secondary_interface)

(* C8: with secondary active after a failover, and both interfaces healthy *)
(* in every round since that failover, a round does not switch back while  *)
(* the time since failover_timestamp is at most failover_timeout, and a    *)
(* round run after failover_timeout has elapsed, its priority updates      *)
(* succeeding, switches current_active back to primary.                    *)

C8_RecoveredSinceFailover ==
    /\ current_active = secondary_interface
    /\ failover_timestamp # None
    /\ \A k \in 1..Len(collected) :
          collected[k][primary_interface].timestamp > failover_timestamp[1]
             => /\ Healthy(collected[k], primary_interface)
                /\ Healthy(collected[k], secondary_interface)

C8_SwitchBackAfterTimeout ==
    [][ (ProcessStep /\ C8_RecoveredSinceFailover)
          => IF now - failover_timestamp[1] > failover_timeout
             THEN AllCallsSucceeded(router_calls')
                     => current_active' = primary_interface
             ELSE current_active' = secondary_interface ]_vars

C9_HealthyIffUpAndBelowThresholds ==
    ret # None =>
        ( ret[1] <=> /\ arg[1] # None
                     /\ arg[1][1].status # "down"
                     /\ arg[1][1].latency < latency_max
                     /\ arg[1][1].packet_loss < packet_loss_max )

C9_DownOrBoundaryUnhealthy ==
    (ret # None /\ arg[1] # None
       /\ \/ arg[1][1].status = "down"
          \/ arg[1][1].latency = latency_max
          \/ arg[1][1].packet_loss = packet_loss_max)
    => ret[1] = FALSE

(* C9: is_interface_healthy returns true exactly when the metrics are      *)
(* present, the status is not down, latency < latency_max and              *)
(* packet_loss < packet_loss_max; so it returns false for status down      *)
(* whatever the latency and loss, and false when the latency equals        *)
(* latency_max or the packet loss equals packet_loss_max.                  *)

C10_HistoryIsLastCapEntries ==
    LET n == Len(collected)
    IN  /\ n > 0 => DOMAIN metrics_history = Interfaces
        /\ \A i \in DOMAIN metrics_history :
              LET h == metrics_history[i]
              IN  /\ Len(h) = Min(n, HistoryCap)
                  /\ \A k \in 1..Len(h) : h[k] = collected[n - Len(h) + k][i]

C10_Witness ==
    /\ Len(collected) = HistoryCap + 1
    /\ Len(metrics_history[primary_interface]) = HistoryCap
    /\ metrics_history[primary_interface][1] = collected[2][primary_interface]
    /\ metrics_history[primary_interface][1] # collected[1][primary_interface]

(* C11: in every reachable state current_active is one of the two          *)
(* configured interfaces, primary initially and never any other value      *)
(* after rounds, successful switches and failed switch attempts.           *)

C11_ActiveIsConfiguredInterface ==
    /\ current_active \in Interfaces
    /\ (collected = <<>> => current_active = primary_interface)

C11_Witness ==
    /\ RoundDone
    /\ current_active = secondary_interface
    /\ failover_timestamp # None
    /\ round_log.attempted
    /\ ~round_log.success
    /\ round_log.target = Some(primary_interface)

----------------------------------------------------------------------------
\* a loop thread is between collect_metrics and the end of process_metrics
InRound(th) == th.pc = "process"

ThreadsInRound == { t \in DOMAIN threads : InRound(threads[t]) }

(* C12: whatever the sequence and interleaving of start_monitoring and     *)
(* stop_monitoring calls, stop_monitoring returning after its join timeout *)
(* and being followed by start_monitoring included, rounds never overlap:  *)
(* at most one loop thread is inside a round at any time.                  *)

C12_RoundsNeverOverlap == Cardinality(ThreadsInRound) <= 1

----------------------------------------------------------------------------
\* the step is a call of start_monitoring or stop_monitoring
ApiCall == api_calls' # api_calls

LatestCall(calls) == calls[Len(calls)]

\* the call changed nothing of the monitor, its threads or the engine
CallHadNoEffect ==
    UNCHANGED <<is_running, monitor_thread, threads, caller, engine_vars,
                metrics_history, router_vars, sink_vars, now>>

(* C13: start_monitoring called while is_running is true changes nothing,  *)
(* stop_monitoring called while is_running is false changes nothing, and   *)
(* a call that repeats the call made just before it changes nothing, so    *)
(* calling either twice in a row has the effect of calling it once.        *)

C13_RedundantCallsAreNoOps ==
    [][ ApiCall =>
          /\ (LatestCall(api_calls') = "start" /\ is_running => CallHadNoEffect)
          /\ (LatestCall(api_calls') = "stop" /\ ~is_running => CallHadNoEffect)
          /\ (api_calls # <<>> /\ LatestCall(api_calls) = LatestCall(api_calls')
                => CallHadNoEffect) ]_vars

C13_Witness ==
    /\ api_calls = <<"stop", "start", "start">>
    /\ is_running
    /\ Len(threads) = 1
    /\ monitor_thread = Some(1)

----------------------------------------------------------------------------
\* thread t begins a loop iteration in this step
BeginsRound(t) ==
    /\ t \in DOMAIN threads
    /\ threads'[t].rounds > threads[t].rounds

\* the step is the part of stop_monitoring that clears the flag
StopStep == is_running /\ ~is_running'

AllThreadsEnded == \A t \in DOMAIN threads : ~Alive(threads[t])

(* C14: stop_monitoring called while a round is in flight does not touch   *)
(* the round: the thread goes on from collect_metrics to process_metrics,  *)
(* failover included, and ends only at the loop test; no thread begins a   *)
(* round while is_running is false; and from any point on, either          *)
(* is_running is true again later (start_monitoring was called again) or   *)
(* every loop thread has eventually ended.                                 *)

C14_StopLetsRoundFinish ==
    /\ [][ /\ (StopStep => UNCHANGED <<threads, engine_vars, metrics_history,
                                       router_vars, obs_vars>>)
           /\ \A t \in DOMAIN threads :
                 /\ (InRound(threads[t]) =>
                        threads'[t].pc \in {"process", "sleep"})
                 /\ (BeginsRound(t) => is_running) ]_vars
    /\ []<>(is_running \/ AllThreadsEnded)

\* stop was called while the round that performs the failover was in flight
\* (its join timed out between that round's collect_metrics and its
\* process_metrics), and the round has completed with the switch
C14_Witness ==
    /\ ~is_running
    /\ api_calls = <<"start", "stop">>
    /\ Len(threads) = 1
    /\ threads[1].pc = "sleep"
    /\ threads[1].rounds = consecutive_failures_threshold
    /\ round_log.success
    /\ current_active = secondary_interface
    /\ threads[1].metrics[1][primary_interface].timestamp
          = Epoch + 2 * check_interval
    /\ failover_timestamp = Some(Epoch + 2 * check_interval + JoinTimeout)

----------------------------------------------------------------------------
\* thread t ends in this step
ThreadEnds(t) ==
    /\ t \in DOMAIN threads
    /\ Alive(threads[t])
    /\ ~Alive(threads'[t])

\* an exception is raised in thread t's round in this step
RaisesIn(t) ==
    /\ t \in DOMAIN threads
    /\ threads'[t].raised
    /\ \/ InRound(threads[t])
       \/ BeginsRound(t)

(* C15: an exception raised in a round, by collect_metrics or by           *)
(* process_metrics, never ends the loop: the thread sleeps one interval    *)
(* and takes the loop test again; a loop thread ends only at a loop test   *)
(* that finds is_running false, which only stop_monitoring sets.           *)

C15_ExceptionKeepsLoopAlive ==
    [][ \A t \in DOMAIN threads :
          /\ (RaisesIn(t) =>
                /\ threads'[t].pc = "sleep"
                /\ threads'[t].wake = now + threads[t].interval)
          /\ (threads[t].pc = "sleep" /\ threads'[t] # threads[t] =>
                threads'[t].pc = "collect")
          /\ (ThreadEnds(t) =>
                /\ ~is_running
                /\ threads[t].pc = "collect"
                /\ \E k \in DOMAIN api_calls : api_calls[k] = "stop") ]_vars

\* a thread one of whose two earlier rounds raised in collect_metrics has
\* slept, found is_running true and collected again in its third round
C15_Witness ==
    /\ Len(threads) = 1
    /\ threads[1].rounds = 3
    /\ threads[1].pc = "process"
    /\ Len(collected) = 2
    /\ consecutive_failures[primary_interface] = 1
    /\ is_running

----------------------------------------------------------------------------
StoredRow(rows, x) == \E k \in DOMAIN rows : rows[k] = x

\* the sink failed to store some interface's metrics of the round m
SinkFailed(rows, m) == \E i \in Interfaces : ~StoredRow(rows, m[i])

\* a step of the loop that runs collect_metrics
CollectStep == pc = "collect" /\ pc' = "process"

CounterOf(cf, i) == IF i \in DOMAIN cf THEN cf[i] ELSE 0

(* C16: when the sink fails to store an interface's metrics, the round     *)
(* goes on: collect_metrics still appends the metrics of every interface   *)
(* to its history and returns them, and process_metrics then runs on them: *)
(* it resets the counter of each healthy interface and, unless a failover  *)
(* is attempted, counts each unhealthy one.                                *)

C16_SinkFailureKeepsRound ==
    [][ /\ (CollectStep /\ SinkFailed(stored', metrics'[1]) =>
              /\ pc' = "process"
              /\ \A i \in Interfaces :
                    /\ i \in DOMAIN metrics_history'
                    /\ metrics_history'[i] # <<>>
                    /\ metrics_history'[i][Len(metrics_history'[i])]
                          = metrics'[1][i]
                    /\ Len(metrics_history'[i])
                          = Min(CounterOf([x \in DOMAIN metrics_history |->
                                   Len(metrics_history[x])], i) + 1, HistoryCap))
        /\ (pc = "process" /\ SinkFailed(stored, metrics[1]) =>
              /\ ProcessStep
              /\ \A i \in Interfaces :
                    /\ (Healthy(metrics[1], i) =>
                          consecutive_failures'[i] = 0)
                    /\ (~Healthy(metrics[1], i) /\ ~round_log'.attempted =>
                          consecutive_failures'[i]
                             = CounterOf(consecutive_failures, i) + 1)) ]_vars

\* every write of the sink failed in three rounds, and the third round
\* performed the failover
C16_Witness ==
    /\ RoundDone
    /\ persistence # None
    /\ stored = <<>>
    /\ Len(collected) = consecutive_failures_threshold
    /\ \A i \in Interfaces :
          Len(metrics_history[i]) = consecutive_failures_threshold
    /\ round_log.success
    /\ current_active = secondary_interface

----------------------------------------------------------------------------
\* a round's process_metrics changed the active interface
Switched == current_active' # current_active

(* C17: every round that switches the active interface records exactly    *)
(* one FailoverEvent to the sink, and a round with a failed switch attempt *)
(* or without a switch records none.                                       *)

C17_SwitchRecordsOneEvent ==
    [][ ProcessStep =>
          IF Switched
          THEN Len(failover_events') = Len(failover_events) + 1
          ELSE failover_events' = failover_events ]_vars

----------------------------------------------------------------------------
SynthesizedDown(m) ==
    m.status = "down" /\ m.latency = INF /\ m.packet_loss = 100

\* one ping test per configured target, each with count 5
OnePingPerTarget(calls, interface_name) ==
    /\ Len(calls) = Len(PING_TARGETS)
    /\ \A k \in 1..Len(PING_TARGETS) :
          /\ calls[k].interface = interface_name
          /\ calls[k].target = PING_TARGETS[k]
          /\ calls[k].count = PingCount

(* C18: get_interface_metrics returns the synthesized down metrics and     *)
(* asks for no ping test exactly when the router reports the interface     *)
(* absent or with running false; when the router reports running true (a   *)
(* bool, as the router link gives it) it returns status up and has asked   *)
(* for exactly one ping test per configured target, each with count 5.     *)

C18_DownIffAbsentOrNotRunning ==
    ret # None =>
       LET st == arg[1].status
       IN  /\ (st = None \/ st = Running("False") =>
                 SynthesizedDown(ret[1]) /\ router_calls = <<>>)
           /\ (st = Running("True") =>
                 /\ ret[1].status = "up"
                 /\ OnePingPerTarget(router_calls, arg[1].interface_name))

----------------------------------------------------------------------------
\* the targets whose ping test gave at least one reply with a time
TargetsWithData(results) ==
    { k \in 1..Len(results) :
        results[k] # None /\ PresentResults(results[k][1]) # <<>> }

\* the per-target average latency of target k
TargetAverage(results, k) ==
    LET times == PresentResults(results[k][1])
    IN  FSum(times) \div Len(times)

RECURSIVE SumOver(_, _)
SumOver(results, targets) ==
    IF targets = {} THEN 0
    ELSE LET k == CHOOSE x \in targets : TRUE
         IN  TargetAverage(results, k) + SumOver(results, targets \ {k})

(* C19: for an interface that is up, the latency get_interface_metrics     *)
(* returns is the arithmetic mean of the per-target average latencies of   *)
(* the targets with at least one successful ping, a target with zero       *)
(* received replies being left out of the mean; the latency is infinite    *)
(* and the packet loss 100% only if no target yields data.                 *)

C19_LatencyIsMeanOfTargetsWithData ==
    ret # None /\ ret[1].status = "up" =>
       LET with_data == TargetsWithData(arg[1].results)
       IN  IF with_data = {}
           THEN ret[1].latency = INF /\ ret[1].packet_loss = 100
           ELSE /\ ret[1].latency =
                      SumOver(arg[1].results, with_data) \div Cardinality(with_data)
                /\ ~(ret[1].latency = INF /\ ret[1].packet_loss = 100)

----------------------------------------------------------------------------
\* the step is a call of get_metrics_history
HistoryRead == <<arg, ret>>' # <<arg, ret>>

\* the min(limit, length) most recent entries of a history
MostRecent(history, limit) ==
    SubSeq(history, Len(history) - Min(limit, Len(history)) + 1, Len(history))

(* C20: for every history and every limit >= 0, get_metrics_history        *)
(* returns for an interface the min(limit, length) most recent entries of  *)
(* its history in insertion order, the empty list for limit 0, and with no *)
(* interface given the same for each interface of the returned map.        *)

C20_HistoryReadIsBounded ==
    [][ HistoryRead =>
          LET interface == arg'[1].interface
              limit     == arg'[1].limit
              result    == ret'[1]
          IN  IF interface # None
              THEN LET history == IF interface[1] \in DOMAIN metrics_history
                                  THEN metrics_history[interface[1]] ELSE <<>>
                   IN  /\ result = MostRecent(history, limit)
                       /\ Len(result) <= limit
              ELSE /\ DOMAIN result = DOMAIN metrics_history
                   /\ \A i \in DOMAIN result :
                         /\ result[i] = MostRecent(metrics_history[i], limit)
                         /\ Len(result[i]) <= limit ]_vars

----------------------------------------------------------------------------
\* the counter of i after a round is the reset of the active interface's
\* counter that follows a switch attempt
ResetByAttempt(i) ==
    /\ round_log'.attempted
    /\ i = current_active
    /\ consecutive_failures'[i] = 0

(* C21: in every round of process_metrics, the counter of each interface   *)
(* of the round's metrics goes up by exactly 1 if the interface is         *)
(* unhealthy and is 0 afterwards if it is healthy, the only other change   *)
(* being the reset to 0 of the active interface's counter after a switch   *)
(* attempt; no counter is negative in any reachable state.                 *)

C21_CountersFollowHealth ==
    /\ [](\A i \in DOMAIN consecutive_failures : consecutive_failures[i] >= 0)
    /\ [][ ProcessStep =>
             /\ DOMAIN consecutive_failures' = DOMAIN metrics[1]
             /\ \A i \in DOMAIN metrics[1] :
                   \/ ResetByAttempt(i)
                   \/ /\ Healthy(metrics[1], i)
                      /\ consecutive_failures'[i] = 0
                   \/ /\ ~Healthy(metrics[1], i)
                      /\ consecutive_failures'[i]
                            = CounterOf(consecutive_failures, i) + 1 ]_vars

\* primary's counter went back to 0 on recovery while secondary's counts
\* its second unhealthy round
C21_Witness ==
    /\ RoundDone
    /\ Len(collected) = 3
    /\ ~Healthy(collected[1], primary_interface)
    /\ Healthy(collected[2], primary_interface)
    /\ Healthy(collected[1], secondary_interface)
    /\ ~Healthy(collected[2], secondary_interface)
    /\ ~Healthy(collected[3], secondary_interface)
    /\ consecutive_failures[primary_interface] = 0
    /\ consecutive_failures[secondary_interface] = 2

----------------------------------------------------------------------------
\* the dwell time on secondary is over: a timestamp is set and more than
\* failover_timeout has passed since
DwellOver(ts, t) == ts # None /\ t - ts[1] > failover_timeout

(* C22: evaluate_failover_need called with secondary active and healthy    *)
(* returns (True, primary) if and only if primary is healthy,              *)
(* failover_timestamp is set and now - failover_timestamp exceeds          *)
(* failover_timeout strictly; in every other case with a healthy current   *)
(* interface it returns (False, current_active); and it changes neither    *)
(* current_active nor failover_timestamp.                                  *)

C22_SwitchBackOnlyAfterDwell ==
    ret # None =>
       LET m   == arg[1].metrics
           cur == arg[1].current_active
           ts  == arg[1].failover_timestamp
           switch_back == /\ cur = secondary_interface
                          /\ Healthy(m, primary_interface)
                          /\ DwellOver(ts, now)
       IN  /\ current_active = cur
           /\ failover_timestamp = ts
           /\ (Healthy(m, cur) =>
                 ret[1] = IF switch_back THEN <<TRUE, primary_interface>>
                          ELSE <<FALSE, cur>>)

\* secondary active and healthy, primary healthy, the call made one second
\* after the timeout has passed
C22_Witness ==
    /\ ret = Some(<<TRUE, primary_interface>>)
    /\ current_active = secondary_interface
    /\ Healthy(arg[1].metrics, secondary_interface)
    /\ failover_timestamp # None
    /\ now - failover_timestamp[1] = failover_timeout + 1

----------------------------------------------------------------------------
(* C23: every successful switch made by the monitoring rounds happens in a *)
(* round in which the interface that was active is unhealthy and the       *)
(* target is healthy, the target's counter being 0 at the switch; the      *)
(* rounds never switch away from an interface that is healthy in the round.*)

C23_SwitchOnlyFromUnhealthyToHealthy ==
    [][ ProcessStep /\ Switched =>
          /\ round_log'.success
          /\ ~Healthy(metrics[1], current_active)
          /\ Healthy(metrics[1], current_active')
          /\ consecutive_failures'[current_active'] = 0 ]_vars

\* the engine has switched to secondary and back to primary, each time
\* away from an unhealthy interface
C23_Witness ==
    /\ RoundDone
    /\ round_log.success
    /\ current_active = primary_interface
    /\ failover_timestamp = Some(now)
    /\ ~Healthy(metrics[1], secondary_interface)
    /\ consecutive_failures[primary_interface] = 0

----------------------------------------------------------------------------
\* the router prefers the interface the engine records as active
RouterAgrees(active, dist) ==
    /\ dist[active] = DistancePromoted
    /\ dist[OtherInterface(active)] = DistanceDemoted

(* C24: after any sequence of rounds with at least one switch attempt, the *)
(* interface recorded as current_active is the one whose most recently     *)
(* applied distance is 1 and the other interface's is 10, also after an    *)
(* attempt whose target update failed and after one whose old-interface    *)
(* update failed.  (Before the first attempt the distances are those of    *)
(* construction, which agree.)                                             *)

----------------------------------------------------------------------------
\* the rounds collected after time ts, the round in progress included
RoundsAfter(log, ts) ==
    Cardinality({ k \in DOMAIN log : log[k][primary_interface].timestamp > ts })

(* C25: with a single monitoring loop, two successive successful switches  *)
(* are at least consecutive_failures rounds apart: the round of a switch   *)
(* is at least the third round after the round of the previous switch,     *)
(* whatever the health readings are.                                       *)

C25_SwitchesAtLeastThresholdApart ==
    [][ ProcessStep /\ Switched /\ failover_timestamp # None =>
          RoundsAfter(collected, failover_timestamp[1])
             >= consecutive_failures_threshold ]_vars

\* switched to secondary in round 3 and back to primary in round 6
C25_Witness ==
    /\ RoundDone
    /\ Len(collected) = 2 * consecutive_failures_threshold
    /\ round_log.success
    /\ current_active = primary_interface
    /\ failover_timestamp = Some(now)
    /\ \A k \in 1..consecutive_failures_threshold :
          ~Healthy(collected[k], primary_interface)
    /\ \A k \in (consecutive_failures_threshold + 1)..Len(collected) :
          ~Healthy(collected[k], secondary_interface)

====
